---- MODULE Spec2Model ----
(***************************************************************************)
(* Client state machine of the audio tag editor: the shared React contexts *)
(* (metadata list, current index, file list, batch flag, adding-file       *)
(* flag), the three input panels that populate them, the workspace event   *)
(* handler, and the tag editor with its debounced auto-save.               *)
(*                                                                         *)
(* Conventions.  JavaScript values are strings: Undef is undefined/null,   *)
(* "" the empty string, numbers are written "#n" (so "#0" is the number 0  *)
(* and is falsy, while a text "0" would be truthy).  currentIndex is       *)
(* 0-based as in the code; TLA+ sequences are 1-based, so entry i of the   *)
(* list is allFilesMetadata[i + 1].  A handler runs to completion as one   *)
(* action, followed by React's re-render and the effects it triggers.      *)
(* Pending asynchronous work (timers, fetches, image reads) keeps the      *)
(* values its closure captured.  Time is counted in seconds.  The alerts   *)
(* of the input panels are not part of the state.  getApiUrl of            *)
(* config/api.ts is modelled on paths written as sequences of segments.    *)
(***************************************************************************)
EXTENDS Integers, Sequences, FiniteSets, TLC

\* ------------------------------------------------------------------ bounds
MaxFilesEver == 3
MaxStaged == 2
MaxEdits == 2
MaxCloses == 1
MaxIndex == 3

MaxApiCalls == 2

MaxProxyCalls == 1
MaxResizeCalls == 1
MaxDownloads == 1

\* ------------------------------------------------------------- JS values
Undef == "undefined"

Truthy(v) == v \notin {Undef, "", "#0"}

\* a || b
Or(a, b) == IF Truthy(a) THEN a ELSE b

FileNames == <<"f1", "f2", "f3", "f4", "f5">>

TextFields == {"title", "artist", "album", "genre"}

Fields == TextFields \cup {"year", "cover_art", "cover_art_mime_type"}

\* AudioMetadata with no tag set
NoMetadata == [f \in Fields |-> Undef]

\* tag sets the backend may report for a new file
BackendMetadata == {NoMetadata, [NoMetadata EXCEPT !["title"] = "t0"]}

VARIABLES
    allFilesMetadata,   \* AllFilesMetadataProvider state: sequence of FileMetadata
    currentIndex,       \* CurrentFileIndexProvider state
    files,              \* FilesProvider state: Undef (null) or the FileList-like object
    isBatch,            \* BatchProvider state
    isAddingFile,       \* AddingFileProvider state
    selectedOption,     \* inputStore.selectedOption
    stagedFiles,        \* UploadFile local state
    linkText,           \* YouTubeUrl / SoundCloudUrl local state: is the link non-blank
    acquisitions,       \* upload / download requests in flight
    numCreated,         \* number of files named so far
    numCloses,          \* number of closeWorkspace calls so far
    lastOp,             \* the handler that ran last
    \* ---- TagEditor
    instance,           \* number of TagEditor instances mounted so far
    editor,             \* useState values of the mounted instance
    autoSaveTimeoutRef, \* per instance: armed timer id, 0 for null
    isAutoSavingRef,    \* per instance: BOOLEAN
    timers,             \* armed setTimeout callbacks
    coverReads,         \* cover-art reads in progress (FileReader / Image / toBlob)
    saves,              \* auto-save requests in flight
    numEdits,           \* number of form edits so far
    numTimers,          \* number of setTimeout calls so far
    \* ---- observation of the run
    elapsed,            \* seconds since the last debouncedAutoSave call
    lastEdit,           \* the last debouncedAutoSave call
    attempts,           \* autoSave calls since the last debouncedAutoSave call
    lastAttempt,        \* the last autoSave call
    sentLog,            \* auto-save requests sent so far
    clearCacheRequests, \* clear-cache requests in flight
    env,                \* process.env: NODE_ENV and NEXT_PUBLIC_API_URL
    apiCalls,           \* the getApiUrl calls made so far: endpoint and result
    proxyCalls,         \* the requests the proxy routes have answered
    resizeCalls,        \* the cover images img.onload has resized
    downloadRequests    \* what each press of the download button requested

sharedVars == <<allFilesMetadata, currentIndex, files, isBatch, isAddingFile>>

panelVars == <<selectedOption, stagedFiles, linkText>>

refVars == <<autoSaveTimeoutRef, isAutoSavingRef>>

asyncVars == <<timers, coverReads, saves>>

countVars == <<numCreated, numCloses, numEdits, numTimers>>

obsVars == <<elapsed, lastEdit, attempts, lastAttempt, sentLog>>

routeVars == <<env, apiCalls, proxyCalls, resizeCalls, downloadRequests>>

vars == <<sharedVars, panelVars, editor, refVars, asyncVars, countVars,
          acquisitions, instance, lastOp, obsVars, clearCacheRequests, routeVars>>

\* ------------------------------------------------ AllFilesMetadataProvider
\* entry at 0-based index i, Undef when there is none (updated[index])
At(list, i) == IF i \in 0..(Len(list) - 1) THEN list[i + 1] ELSE Undef

HasAt(list, i) == i \in 0..(Len(list) - 1)

\* { ...a, ...b } for a partial metadata object b
Merge(a, b) == [f \in Fields |-> IF f \in DOMAIN b THEN b[f] ELSE a[f]]

addFileMetadata(list, fileMetadata) == Append(list, fileMetadata)

\* updateFileMetadata storing the update in place of the entry's metadata
updateFileMetadataReplacing(list, index, metadata) ==
    IF HasAt(list, index)
    THEN [list EXCEPT ![index + 1] =
             [@ EXCEPT !.metadata =
                 [f \in Fields |-> IF f \in DOMAIN metadata THEN metadata[f] ELSE Undef]]]
    ELSE list

updateFileMetadata(list, index, metadata) ==
    IF HasAt(list, index)
    THEN [list EXCEPT ![index + 1] =
             [@ EXCEPT !.metadata = Merge(@, metadata)]]
    ELSE list

updateAllFilesMetadata(list, metadata) ==
    [i \in 1..Len(list) |->
        [list[i] EXCEPT !.metadata = Merge(@, metadata)]]

setUpdatedFilename(list, index, filename) ==
    IF HasAt(list, index)
    THEN [list EXCEPT ![index + 1] = [@ EXCEPT !.updatedFilename = filename]]
    ELSE list

\* ------------------------------------------------ CurrentFileIndexProvider
goToNextIndex(prev) == prev + 1

goToPreviousIndex(prev) == IF prev - 1 > 0 THEN prev - 1 ELSE 0

goToFirstIndex(prev) == 0

goToLastIndex(prev) == prev


\* ------------------------------------------------------------ FilesProvider
\* JavaScript numbers as values
Num(n) == <<"#0", "#1", "#2", "#3", "#4", "#5", "#6">>[n + 1]

\* a > n for a JavaScript value a (undefined > n is false)
Gt(a, n) == \E k \in (n + 1)..6 : a = Num(k)

NullFiles == [null |-> TRUE, length |-> Undef, items |-> <<>>]

\* the object UploadFile passes to setFiles: { item, ...stagedFiles }; the
\* spread copies the indexed elements and no length
FileListOf(staged) == [null |-> FALSE, length |-> Undef, items |-> staged]

\* -------------------------------------------------- what is on the screen
WorkspaceHasFiles(list, adding) == Len(list) > 0 \/ adding

HasAnyFiles(fl, list) == (~fl.null /\ Gt(fl.length, 0)) \/ Len(list) > 0

ShowSkeleton(list, fl, adding) == adding /\ ~HasAnyFiles(fl, list)

TagEditorMounted(list, fl, adding) ==
    WorkspaceHasFiles(list, adding) /\ ~ShowSkeleton(list, fl, adding)

\* ---------------------------------------------------------------- TagEditor
InitialForm ==
    [f \in Fields |-> IF f \in TextFields THEN "" ELSE Undef]

InitialEditor ==
    [metadata |-> InitialForm, currentFilename |-> "", updatedFilename |-> Undef,
     coverArtUrl |-> Undef, showAlert |-> FALSE, isSaving |-> FALSE,
     lastSaveTime |-> FALSE, hasPendingChanges |-> FALSE]

DataUrl(mime, data) == "data:" \o mime \o ";base64," \o data

\* the form values the load effects compute from an entry
FormOf(entry) ==
    [f \in Fields |->
        IF f \in TextFields THEN Or(entry.metadata[f], "")
        ELSE Or(entry.metadata[f], Undef)]

CoverUrlOf(entry) ==
    IF Truthy(entry.metadata["cover_art"]) /\ Truthy(entry.metadata["cover_art_mime_type"])
    THEN DataUrl(entry.metadata["cover_art_mime_type"], entry.metadata["cover_art"])
    ELSE Undef

\* an editor whose effects load nothing
NoLoadEffects(list, index, ed) == ed

\* the two useEffect bodies with dependencies [allFilesMetadata, currentIndex]
LoadEffects(list, index, ed) ==
    IF Len(list) > 0 /\ HasAt(list, index)
    THEN [ed EXCEPT !.metadata = FormOf(list[index + 1]),
                    !.currentFilename = list[index + 1].filename,
                    !.updatedFilename = Or(list[index + 1].updatedFilename, Undef),
                    !.coverArtUrl = CoverUrlOf(list[index + 1])]
    ELSE ed

\* clearTimeout(id)
ClearTimeout(ts, id) == {t \in ts : t.id # id}

\* React commits the state a handler has set: list2, index2, files2, adding2 are
\* the shared state after the handler, ed2 the editor state it set, effect says
\* whether a dependency of the load effects changed, ts2, ref2 and busy2 are the
\* timers, timeout refs and saving refs the handler left.  TagEditor is mounted or unmounted as the
\* Workspace / TagEditorSpace conditions say; unmounting runs the cleanup that
\* clears the armed timeout.
Render(list2, index2, files2, adding2, ed2, effect, ts2, ref2, busy2) ==
    LET was == TagEditorMounted(allFilesMetadata, files, isAddingFile)
        now == TagEditorMounted(list2, files2, adding2)
    IN  /\ allFilesMetadata' = list2
        /\ currentIndex' = index2
        /\ files' = files2
        /\ isAddingFile' = adding2
        /\ IF now /\ was
           THEN /\ editor' = IF effect THEN LoadEffects(list2, index2, ed2) ELSE ed2
                /\ instance' = instance
                /\ timers' = ts2
                /\ autoSaveTimeoutRef' = ref2
                /\ isAutoSavingRef' = busy2
           ELSE IF now
           THEN /\ editor' = LoadEffects(list2, index2, InitialEditor)
                /\ instance' = instance + 1
                /\ timers' = ts2
                /\ autoSaveTimeoutRef' = Append(ref2, 0)
                /\ isAutoSavingRef' = Append(busy2, FALSE)
           ELSE /\ editor' = InitialEditor
                /\ instance' = instance
                /\ timers' = IF was /\ ref2[instance] # 0
                             THEN ClearTimeout(ts2, ref2[instance]) ELSE ts2
                /\ autoSaveTimeoutRef' = ref2
                /\ isAutoSavingRef' = busy2

\* a handler that leaves the editor's own state and timers as they are
RenderShared(list2, index2, files2, adding2, effect) ==
    Render(list2, index2, files2, adding2, editor, effect, timers, autoSaveTimeoutRef,
           isAutoSavingRef)

\* --------------------------------------------------------------- config/api.ts
\* a URL or path is the sequence of its segments: '/api/upload/cover-art' is
\* <<"/api", "/upload", "/cover-art">>, and a template literal concatenates
NodeEnvs == {"production", "development", "test"}

ApiUrlSettings == {Undef, "", "https://api.example.com"}

Envs == [NODE_ENV : NodeEnvs, NEXT_PUBLIC_API_URL : ApiUrlSettings]

DevelopmentEnv == [NODE_ENV |-> "development", NEXT_PUBLIC_API_URL |-> Undef]

getDirectBackendUrl ==
    IF env.NODE_ENV = "production"
    THEN Or(env.NEXT_PUBLIC_API_URL, "https://audio-tag-editor-web.onrender.com")
    ELSE Or(env.NEXT_PUBLIC_API_URL, "http://localhost:8000")

DIRECT_BACKEND_URL == <<getDirectBackendUrl>>

UPLOAD == <<"/upload", "/">>

UPDATE_TAGS == <<"/api", "/upload", "/update-tags">>

UPDATE_WORKSPACE_TAGS == <<"/api", "/upload", "/update-workspace-tags">>

COVER_ART == <<"/api", "/upload", "/cover-art">>

DOWNLOAD_YOUTUBE == <<"/api", "/upload", "/download", "/youtube">>

DOWNLOAD_SOUNDCLOUD == <<"/api", "/upload", "/download", "/soundcloud">>

DOWNLOAD_FILE == <<"/api", "/upload", "/download">>

DOWNLOAD_BY_FILENAME == <<"/api", "/upload", "/download", "/by-filename">>

DOWNLOAD_LATEST == <<"/api", "/upload", "/download-latest">>

DOWNLOAD_ALL == <<"/api", "/upload", "/download-all">>

CLEAR_CACHE == <<"/api", "/upload", "/clear-cache">>

FILES_ALL == <<"/api", "/upload", "/files", "/all">>

ENDPOINTS ==
    {UPLOAD, UPDATE_TAGS, UPDATE_WORKSPACE_TAGS, COVER_ART, DOWNLOAD_YOUTUBE,
     DOWNLOAD_SOUNDCLOUD, DOWNLOAD_FILE, DOWNLOAD_BY_FILENAME, DOWNLOAD_LATEST,
     DOWNLOAD_ALL, CLEAR_CACHE, FILES_ALL}

\* getApiUrl sending every endpoint to the backend
getApiUrlAlwaysDirect(endpoint) == DIRECT_BACKEND_URL \o endpoint

getApiUrl(endpoint) ==
    IF endpoint = UPLOAD THEN DIRECT_BACKEND_URL \o endpoint ELSE endpoint

\* ------------------------------------------------------- app/api/upload routes
\* the JSON-forwarding proxy routes; each exports POST
ProxyRoutes ==
    {"update-tags", "update-workspace-tags", "update-downloaded-tags", "cover-art",
     "download/youtube", "download/soundcloud"}

\* the fallback message of a route's error body
FailureMessage(route) ==
    CASE route = "update-tags" -> "Failed to update metadata"
      [] route = "update-workspace-tags" -> "Failed to update workspace file metadata"
      [] route = "update-downloaded-tags" -> "Failed to update downloaded file metadata"
      [] route = "cover-art" -> "Failed to update cover art"
      [] route = "download/youtube" -> "Failed to download YouTube audio"
      [] route = "download/soundcloud" -> "Failed to download SoundCloud audio"

\* a request to a route: does request.formData() succeed, and its stored_filename
ProxyRequests == [parses : BOOLEAN, stored_filename : {Undef, "f1"}]

\* status codes of the backend's answers
BackendStatuses == {200, 400, 404, 422, 500, 503}

\* bodies of the backend's answers: JSON with a detail, JSON without, the JSON
\* text null, text that is not JSON, nothing
BackendBodies == {"detail", "nodetail", "null", "text", "empty"}

\* what the fetch of the backend does: it throws, or answers with a status, a
\* content type and a body whose reading may fail
BackendAnswers ==
    [threw : BOOLEAN, status : BackendStatuses, json : BOOLEAN,
     body : BackendBodies, readThrows : BOOLEAN]

\* response.ok
Ok(status) == status \in 200..299

\* the text of a body
TextOf(body) ==
    CASE body = "detail" -> "{detail}"
      [] body = "nodetail" -> "{}"
      [] body = "null" -> "null"
      [] body = "text" -> "oops"
      [] body = "empty" -> ""

\* does JSON.parse of the body throw
ParseThrows(body) == body \in {"text", "empty"}

\* the error a route reports for a non-OK answer: errorJson.detail || fallback,
\* and in the catch of a failed parse or of null.detail, errorText || fallback
ErrorOf(route, body) ==
    IF ParseThrows(body) \/ body = "null"
    THEN Or(TextOf(body), FailureMessage(route))
    ELSE IF body = "detail" THEN "detail" ELSE FailureMessage(route)

Threw == [threw |-> TRUE, status |-> 0, kind |-> "none", error |-> Undef]

JsonResponse(status, kind, error) ==
    [threw |-> FALSE, status |-> status, kind |-> kind, error |-> error]

\* the body of a route's try block: a response, or Threw when it throws
Forward(route, request, backend) ==
    IF ~request.parses THEN Threw
    ELSE IF route = "update-workspace-tags" /\ ~Truthy(request.stored_filename)
    THEN JsonResponse(400, "error", "Missing stored_filename parameter")
    ELSE IF backend.threw THEN Threw
    ELSE IF ~Ok(backend.status)
    THEN (IF backend.readThrows THEN Threw
          ELSE JsonResponse(backend.status, "error", ErrorOf(route, backend.body)))
    ELSE IF route = "update-tags" /\ ~backend.json
    THEN (IF backend.readThrows THEN Threw
          ELSE JsonResponse(backend.status, "blob", Undef))
    ELSE IF backend.readThrows \/ ParseThrows(backend.body) THEN Threw
    ELSE JsonResponse(200, "data", Undef)

\* is the backend called for this request
CallsBackend(route, request) ==
    /\ request.parses
    /\ ~(route = "update-workspace-tags" /\ ~Truthy(request.stored_filename))

\* a route without its catch block
POSTUncaught(route, request, backend) == Forward(route, request, backend)

\* export async function POST: the try block and its catch
POST(route, request, backend) ==
    IF Forward(route, request, backend).threw
    THEN JsonResponse(500, "error", "Internal server error")
    ELSE Forward(route, request, backend)

(***************************************************************************)
(* handleCoverArtUpload, img.onload: the size of the canvas the picked     *)
(* image is drawn on.  width and height are JavaScript numbers; a quotient *)
(* is kept exact as a fraction [n, d].  Assigning to canvas.width and      *)
(* canvas.height converts to an unsigned long, which drops the fractional  *)
(* part.                                                                   *)
(***************************************************************************)
maxSize == 500

ImageSides == {1, 2, 3, 250, 499, 500, 501, 750, 1000, 1001, 1500}

Whole(n) == [n |-> n, d |-> 1]

Quotient(n, d) == [n |-> n, d |-> d]

ToUnsignedLong(q) == q.n \div q.d

resizeStretch(w, h) ==
    [width |-> Whole(maxSize), height |-> Whole(maxSize)]

resize(w, h) ==
    IF w > h
    THEN IF w > maxSize
         THEN [width |-> Whole(maxSize), height |-> Quotient(h * maxSize, w)]
         ELSE [width |-> Whole(w), height |-> Whole(h)]
    ELSE IF h > maxSize
         THEN [width |-> Quotient(w * maxSize, h), height |-> Whole(maxSize)]
         ELSE [width |-> Whole(w), height |-> Whole(h)]

(***************************************************************************)
(* DownloadButtons: the button TagEditor renders under the form.  A URL    *)
(* is the sequence of its segments; NoRequest stands for a press that      *)
(* fetches nothing.                                                        *)
(***************************************************************************)
hasFiles(fl) == ~fl.null /\ Gt(fl.length, 0)

hasMultipleFiles(fl) == ~fl.null /\ Gt(fl.length, 1)

NoRequest == <<>>

DownloadUrl(name) == <<"http://localhost:8000", "/upload", "/download", name>>

DownloadLatestUrl == <<"http://localhost:8000", "/upload", "/download-latest">>

\* the URL handleDownload fetches; updatedFilename and hasUnsavedChanges are
\* the component's props
DownloadButtonsHandleDownload(fl, list, index, updatedFilename, hasUnsavedChanges) ==
    IF ~hasFiles(fl) THEN NoRequest
    ELSE IF hasUnsavedChanges THEN NoRequest
    ELSE IF hasMultipleFiles(fl) /\ Len(list) > 0
         THEN IF HasAt(list, index) /\ Truthy(At(list, index).updatedFilename)
              THEN DownloadUrl(At(list, index).updatedFilename)
              ELSE NoRequest
         ELSE IF Truthy(updatedFilename)
              THEN DownloadUrl(updatedFilename)
              ELSE DownloadLatestUrl

NoEdit == [made |-> FALSE, inst |-> 0, metadata |-> InitialForm, delay |-> 0]

NoAttempt ==
    [made |-> FALSE, inst |-> 0, metadata |-> InitialForm, sent |-> FALSE,
     inFlight |-> FALSE]

Start(e) ==
    /\ allFilesMetadata = <<>>
    /\ currentIndex = 0
    /\ files = NullFiles
    /\ isBatch = FALSE
    /\ isAddingFile = FALSE
    /\ selectedOption = "upload"
    /\ stagedFiles = <<>>
    /\ linkText = FALSE
    /\ acquisitions = {}
    /\ numCreated = 0
    /\ numCloses = 0
    /\ lastOp = "init"
    /\ instance = 0
    /\ editor = InitialEditor
    /\ autoSaveTimeoutRef = <<>>
    /\ isAutoSavingRef = <<>>
    /\ timers = {}
    /\ coverReads = {}
    /\ saves = {}
    /\ numEdits = 0
    /\ numTimers = 0
    /\ elapsed = 0
    /\ lastEdit = NoEdit
    /\ attempts = 0
    /\ lastAttempt = NoAttempt
    /\ sentLog = {}
    /\ clearCacheRequests = 0
    /\ env = e
    /\ apiCalls = <<>>
    /\ proxyCalls = <<>>
    /\ resizeCalls = <<>>
    /\ downloadRequests = <<>>

Init == Start(DevelopmentEnv)


\* ------------------------------------------------------------------ Workspace
\* entries built from the detail of a metadataLoaded event
UploadedEntry(fileData) ==
    [filename |-> fileData.filename, storedFilename |-> fileData.stored_filename,
     metadata |-> fileData.metadata, isDownloaded |-> FALSE,
     updatedFilename |-> Undef, downloadedFrom |-> Undef]

DownloadedEntry(detail) ==
    [filename |-> detail.filename,
     storedFilename |-> Or(detail.stored_filename, detail.filename),
     metadata |-> detail.metadata, isDownloaded |-> TRUE,
     updatedFilename |-> Undef, downloadedFrom |-> Or(detail.platform, "unknown")]

IsUploadDetail(detail) == Len(detail.all_files_metadata) > 0

IsDownloadDetail(detail) ==
    ~IsUploadDetail(detail) /\ Truthy(detail.filename) /\ detail.hasMetadata

\* the handler of the earlier Workspace: an upload replaces the list
handleMetadataLoadedReplacing(list, detail) ==
    IF IsUploadDetail(detail)
    THEN [i \in 1..Len(detail.all_files_metadata) |->
             UploadedEntry(detail.all_files_metadata[i])]
    ELSE IF IsDownloadDetail(detail)
    THEN addFileMetadata(list, DownloadedEntry(detail))
    ELSE list

\* handleMetadataLoaded: the list it sets
handleMetadataLoadedList(list, detail) ==
    IF IsUploadDetail(detail)
    THEN list \o [i \in 1..Len(detail.all_files_metadata) |->
                     UploadedEntry(detail.all_files_metadata[i])]
    ELSE IF IsDownloadDetail(detail)
    THEN addFileMetadata(list, DownloadedEntry(detail))
    ELSE list

\* a handler that leaves the current index alone
handleMetadataLoadedIndexKept(list, index, detail) == index

\* handleMetadataLoaded: the index it sets
handleMetadataLoadedIndex(list, index, detail) ==
    IF IsUploadDetail(detail)
    THEN (IF Len(list) = 0 THEN 0 ELSE Len(list))
    ELSE IF IsDownloadDetail(detail)
    THEN Len(list)
    ELSE index

\* closeWorkspace: the three setters
closeWorkspaceList(list) == <<>>

closeWorkspaceIndex(index) == 0

\* closeWorkspace without its setFiles(null)
closeWorkspaceKeepsFiles(fl) == fl

closeWorkspaceFiles(fl) == NullFiles

CloseWorkspace ==
    /\ WorkspaceHasFiles(allFilesMetadata, isAddingFile)
    /\ numCloses < MaxCloses
    /\ numCloses' = numCloses + 1
    /\ RenderShared(closeWorkspaceList(allFilesMetadata),
                    closeWorkspaceIndex(currentIndex),
                    closeWorkspaceFiles(files), isAddingFile, TRUE)
    /\ lastOp' = "closeWorkspace"
    /\ clearCacheRequests' = clearCacheRequests + 1
    /\ UNCHANGED routeVars
    /\ UNCHANGED <<isBatch, panelVars, acquisitions, coverReads, saves,
                   numCreated, numEdits, numTimers, obsVars>>

ClearCacheOutcomes == {"resolved", "rejected"}

\* the clear-cache fetch of closeWorkspace settles: a rejection is only logged
ClearCacheResponse(outcome) ==
    /\ clearCacheRequests > 0
    /\ clearCacheRequests' = clearCacheRequests - 1
    /\ lastOp' = IF outcome = "resolved" THEN "clearCacheResolved" ELSE "clearCacheRejected"
    /\ UNCHANGED <<sharedVars, panelVars, editor, refVars, asyncVars, countVars,
                   acquisitions, instance, obsVars, routeVars>>

\* ---------------------------------------------------------------- InputOption
SetSelectedOption(option) ==
    /\ option # selectedOption
    /\ selectedOption' = option
    /\ stagedFiles' = <<>>
    /\ linkText' = FALSE
    /\ acquisitions' = {[a EXCEPT !.alive = FALSE] : a \in acquisitions}
    /\ lastOp' = "setSelectedOption"
    /\ UNCHANGED <<clearCacheRequests, routeVars>>
    /\ UNCHANGED <<sharedVars, editor, refVars, asyncVars, countVars, instance, obsVars>>

\* ----------------------------------------------------------------- UploadFile
onDrop(k) ==
    /\ selectedOption = "upload"
    /\ ~isAddingFile
    /\ numCreated + k <= MaxFilesEver
    /\ Len(stagedFiles) + k <= MaxStaged
    /\ stagedFiles' = stagedFiles \o [i \in 1..k |-> FileNames[numCreated + i]]
    /\ numCreated' = numCreated + k
    /\ lastOp' = "onDrop"
    /\ UNCHANGED <<clearCacheRequests, routeVars>>
    /\ UNCHANGED <<sharedVars, selectedOption, linkText, editor, refVars,
                   asyncVars, numCloses, numEdits, numTimers, acquisitions, instance, obsVars>>

clearStagedFiles ==
    /\ selectedOption = "upload"
    /\ ~isAddingFile
    /\ Len(stagedFiles) > 0
    /\ stagedFiles' = <<>>
    /\ lastOp' = "clearStagedFiles"
    /\ UNCHANGED <<clearCacheRequests, routeVars>>
    /\ UNCHANGED <<sharedVars, selectedOption, linkText, editor, refVars,
                   asyncVars, countVars, acquisitions, instance, obsVars>>

\* a Continue button that ignores the adding flag
ContinueDisabledNoFlag(adding, staged) == Len(staged) = 0

\* Continue to Edit button: disabled={isAddingFile || stagedFiles.length === 0}
ContinueDisabled(adding, staged) == adding \/ Len(staged) = 0

\* processStagedFiles up to its await of fetch
processStagedFiles ==
    /\ selectedOption = "upload"
    /\ ~ContinueDisabled(isAddingFile, stagedFiles)
    /\ isBatch' = IF Len(stagedFiles) > 1 THEN TRUE ELSE isBatch
    /\ acquisitions' = acquisitions \cup
           {[kind |-> "upload", names |-> stagedFiles, alive |-> TRUE]}
    /\ RenderShared(allFilesMetadata, currentIndex, FileListOf(stagedFiles), TRUE, FALSE)
    /\ lastOp' = "processStagedFiles"
    /\ UNCHANGED <<clearCacheRequests, routeVars>>
    /\ UNCHANGED <<panelVars, coverReads, saves, countVars, obsVars>>

UploadOutcomes == {"ok", "okNoMetadata", "httpError", "exception"}

\* a handler that resets the adding flag after a successful acquisition only
finallyIsAddingFileOnSuccess(outcome) == outcome # "ok"

\* processStagedFiles / handleDownload, finally: setIsAddingFile(false)
finallyIsAddingFile(outcome) == FALSE

\* the detail UploadFile dispatches for a response carrying all_files_metadata
UploadDetail(names, withStored, meta) ==
    [all_files_metadata |->
        [i \in 1..Len(names) |->
            [filename |-> names[i],
             stored_filename |-> IF withStored THEN names[i] ELSE Undef,
             metadata |-> meta]],
     filename |-> Undef, hasMetadata |-> FALSE, metadata |-> NoMetadata,
     platform |-> Undef, stored_filename |-> Undef]

\* processStagedFiles from the fetch response to its finally block
UploadResponse(a, outcome, withStored, meta) ==
    /\ a \in acquisitions
    /\ a.kind = "upload"
    /\ acquisitions' = acquisitions \ {a}
    /\ LET detail == UploadDetail(a.names, withStored, meta)
       IN  IF outcome = "ok"
           THEN /\ RenderShared(handleMetadataLoadedList(allFilesMetadata, detail),
                                handleMetadataLoadedIndex(allFilesMetadata, currentIndex, detail),
                                files, finallyIsAddingFile(outcome), TRUE)
                /\ stagedFiles' = IF a.alive THEN <<>> ELSE stagedFiles
           ELSE /\ RenderShared(allFilesMetadata, currentIndex, files,
                                finallyIsAddingFile(outcome), FALSE)
                /\ stagedFiles' = stagedFiles
    /\ lastOp' = IF outcome = "ok" THEN "uploadResponse" ELSE "uploadFailed"
    /\ UNCHANGED <<clearCacheRequests, routeVars>>
    /\ UNCHANGED <<isBatch, selectedOption, linkText, coverReads, saves, countVars, obsVars>>

\* ------------------------------------------------ YouTubeUrl / SoundCloudUrl
setLink(nonBlank) ==
    /\ selectedOption \in {"youtube", "soundcloud"}
    /\ ~isAddingFile
    /\ nonBlank # linkText
    /\ linkText' = nonBlank
    /\ lastOp' = "setLink"
    /\ UNCHANGED <<clearCacheRequests, routeVars>>
    /\ UNCHANGED <<sharedVars, selectedOption, stagedFiles, editor, refVars,
                   asyncVars, countVars, acquisitions, instance, obsVars>>

\* Download & Edit button: disabled={isAddingFile || !youtubeLink.trim()}
DownloadDisabled(adding, link) == adding \/ ~link

\* handleDownload up to its await of fetch
handleDownload ==
    /\ selectedOption \in {"youtube", "soundcloud"}
    /\ ~DownloadDisabled(isAddingFile, linkText)
    /\ acquisitions' = acquisitions \cup
           {[kind |-> selectedOption, names |-> <<>>, alive |-> TRUE]}
    /\ RenderShared(allFilesMetadata, currentIndex, files, TRUE, FALSE)
    /\ lastOp' = "handleDownload"
    /\ UNCHANGED <<clearCacheRequests, routeVars>>
    /\ UNCHANGED <<isBatch, panelVars, coverReads, saves, countVars, obsVars>>

DownloadOutcomes == {"ok", "httpError", "noMetadata", "exception"}

\* the detail YouTubeUrl / SoundCloudUrl dispatch
DownloadDetail(kind, name, meta) ==
    [all_files_metadata |-> <<>>, filename |-> name, hasMetadata |-> TRUE,
     metadata |-> meta, platform |-> kind, stored_filename |-> Undef]

\* handleDownload from the fetch response to its finally block
DownloadResponse(a, outcome, meta) ==
    /\ a \in acquisitions
    /\ a.kind \in {"youtube", "soundcloud"}
    /\ acquisitions' = acquisitions \ {a}
    /\ IF outcome = "ok"
       THEN /\ numCreated < MaxFilesEver
            /\ LET detail == DownloadDetail(a.kind, FileNames[numCreated + 1], meta)
               IN  RenderShared(handleMetadataLoadedList(allFilesMetadata, detail),
                                handleMetadataLoadedIndex(allFilesMetadata, currentIndex, detail),
                                files, finallyIsAddingFile(outcome), TRUE)
            /\ numCreated' = numCreated + 1
            /\ linkText' = IF a.alive THEN FALSE ELSE linkText
       ELSE /\ RenderShared(allFilesMetadata, currentIndex, files,
                            finallyIsAddingFile(outcome), FALSE)
            /\ numCreated' = numCreated
            /\ linkText' = linkText
    /\ lastOp' = IF outcome = "ok" THEN "downloadResponse" ELSE "downloadFailed"
    /\ UNCHANGED <<clearCacheRequests, routeVars>>
    /\ UNCHANGED <<isBatch, selectedOption, stagedFiles, coverReads, saves,
                   numCloses, numEdits, numTimers, obsVars>>


\* ------------------------------------------------------------------ navigation
\* Pagination onChange
Pagination(page) ==
    /\ TagEditorMounted(allFilesMetadata, files, isAddingFile)
    /\ Len(allFilesMetadata) > 1
    /\ page \in 1..Len(allFilesMetadata)
    /\ page - 1 # currentIndex
    /\ RenderShared(allFilesMetadata, page - 1, files, isAddingFile, TRUE)
    /\ lastOp' = "pagination"
    /\ UNCHANGED <<clearCacheRequests, routeVars>>
    /\ UNCHANGED <<isBatch, panelVars, coverReads, saves, countVars, acquisitions, obsVars>>

\* a call of one of the provider's navigation functions
GoTo(name, index2) ==
    /\ index2 # currentIndex
    /\ index2 <= MaxIndex
    /\ RenderShared(allFilesMetadata, index2, files, isAddingFile, TRUE)
    /\ lastOp' = name
    /\ UNCHANGED <<clearCacheRequests, routeVars>>
    /\ UNCHANGED <<isBatch, panelVars, coverReads, saves, countVars, acquisitions, obsVars>>

goToNext == GoTo("goToNext", goToNextIndex(currentIndex))

goToPrevious == GoTo("goToPrevious", goToPreviousIndex(currentIndex))

goToFirst == GoTo("goToFirst", goToFirstIndex(currentIndex))

\* goToLast sets the index to itself: React bails out, nothing is rendered
goToLast ==
    /\ currentIndex' = goToLastIndex(currentIndex)
    /\ lastOp' = "goToLast"
    /\ UNCHANGED <<clearCacheRequests, routeVars>>
    /\ UNCHANGED <<allFilesMetadata, files, isBatch, isAddingFile, panelVars, editor,
                   refVars, asyncVars, countVars, acquisitions, instance, obsVars>>

\* Toolbar checkbox
toggleIsBatch ==
    /\ TagEditorMounted(allFilesMetadata, files, isAddingFile)
    /\ isBatch' = ~isBatch
    /\ lastOp' = "toggleIsBatch"
    /\ UNCHANGED <<clearCacheRequests, routeVars>>
    /\ UNCHANGED <<allFilesMetadata, currentIndex, files, isAddingFile, panelVars, editor,
                   refVars, asyncVars, countVars, acquisitions, instance, obsVars>>


\* ------------------------------------------------------- TagEditor: auto-save
\* debounce delays in seconds (1000 ms and 3000 ms)
TextDelay == 1

CoverDelay == 3

DelayOf(isCoverArtChange) == IF isCoverArtChange THEN CoverDelay ELSE TextDelay

\* is instance inst the TagEditor on the screen (setState on another one is a no-op)
Live(inst) == inst = instance /\ TagEditorMounted(allFilesMetadata, files, isAddingFile)

\* what an autoSave callback closes over: the index and the entry of the render
\* in which it was created
\* a closure that holds the first file whatever the index
ClosureOfFirst(list, index) ==
    [index |-> 0,
     hasEntry |-> HasAt(list, 0),
     stored |-> IF HasAt(list, 0) THEN list[1].storedFilename ELSE Undef]

Closure(list, index) ==
    [index |-> index,
     hasEntry |-> HasAt(list, index),
     stored |-> IF HasAt(list, index) THEN list[index + 1].storedFilename ELSE Undef]

\* debouncedAutoSave without its clearTimeout
debouncedAutoSaveNoCancel(ts, ref, inst, id, metadataToSave, isCoverArtChange, closure) ==
    ts \cup {[id |-> id, inst |-> inst, remaining |-> DelayOf(isCoverArtChange),
              metadata |-> metadataToSave, closure |-> closure]}

\* debouncedAutoSave: the timers it leaves
debouncedAutoSaveTimers(ts, ref, inst, id, metadataToSave, isCoverArtChange, closure) ==
    (IF ref[inst] # 0 THEN ClearTimeout(ts, ref[inst]) ELSE ts) \cup
        {[id |-> id, inst |-> inst, remaining |-> DelayOf(isCoverArtChange),
          metadata |-> metadataToSave, closure |-> closure]}

\* debouncedAutoSave: the timeout ref it leaves
debouncedAutoSaveRef(ref, inst, id) == [ref EXCEPT ![inst] = id]

\* the bookkeeping of a debouncedAutoSave call
Debounced(inst, metadataToSave, isCoverArtChange) ==
    /\ numTimers' = numTimers + 1
    /\ elapsed' = 0
    /\ attempts' = 0
    /\ lastEdit' = [made |-> TRUE, inst |-> inst, metadata |-> metadataToSave,
                    delay |-> DelayOf(isCoverArtChange)]
    /\ UNCHANGED <<lastAttempt, sentLog>>

\* a form edit made by the user in the mounted editor: newMetadata is the form
\* it sets, list2 the list after its updateFileMetadata calls
FormEdit(name, newMetadata, list2, isCoverArtChange, ed2) ==
    /\ TagEditorMounted(allFilesMetadata, files, isAddingFile)
    /\ numEdits < MaxEdits
    /\ numEdits' = numEdits + 1
    /\ Render(list2, currentIndex, files, isAddingFile,
              [ed2 EXCEPT !.metadata = newMetadata, !.hasPendingChanges = TRUE],
              TRUE,
              debouncedAutoSaveTimers(timers, autoSaveTimeoutRef, instance, numTimers + 1,
                  newMetadata, isCoverArtChange, Closure(allFilesMetadata, currentIndex)),
              debouncedAutoSaveRef(autoSaveTimeoutRef, instance, numTimers + 1),
              isAutoSavingRef)
    /\ Debounced(instance, newMetadata, isCoverArtChange)
    /\ lastOp' = name
    /\ UNCHANGED <<clearCacheRequests, routeVars>>
    /\ UNCHANGED <<isBatch, panelVars, coverReads, saves, numCreated, numCloses,
                   acquisitions>>

TextValues == {"", "a"}

\* updateFileMetadata(index, patch) for every index of the rendered list
UpdateEvery(list, patch) ==
    LET RECURSIVE Upto(_)
        Upto(n) == IF n = 0 THEN list
                   ELSE updateFileMetadata(Upto(n - 1), n - 1, patch)
    IN  Upto(Len(list))

\* handleInputChange updating the current index whatever isBatch says
handleInputChangeListCurrentOnly(list, index, batch, field, value) ==
    updateFileMetadata(list, index, [f \in {field} |-> value])

\* handleInputChange(field): the list after its updates
handleInputChangeList(list, index, batch, field, value) ==
    IF batch
    THEN UpdateEvery(list, [f \in {field} |-> value])
    ELSE updateFileMetadata(list, index, [f \in {field} |-> value])

handleInputChange(field, value) ==
    /\ value # editor.metadata[field]
    /\ FormEdit("handleInputChange",
                [editor.metadata EXCEPT ![field] = value],
                handleInputChangeList(allFilesMetadata, currentIndex, isBatch, field, value),
                FALSE, editor)

YearInputs == {"", "0", "1999"}

\* parseInt on the texts a number input can hold
ParseInt(text) == IF text = "0" THEN "#0" ELSE IF text = "1999" THEN "#1999" ELSE Undef

\* value ? parseInt(value) : undefined
YearValue(text) == IF text # "" THEN ParseInt(text) ELSE Undef

\* year TextField onChange
yearChange(text) ==
    FormEdit("yearChange",
             [editor.metadata EXCEPT !["year"] = YearValue(text)],
             updateFileMetadata(allFilesMetadata, currentIndex,
                                [f \in {"year"} |-> YearValue(text)]),
             FALSE, editor)

NoCover == [f \in {"cover_art", "cover_art_mime_type"} |-> Undef]

\* Remove Cover button
removeCover ==
    /\ Truthy(editor.coverArtUrl)
    /\ FormEdit("removeCover",
                [editor.metadata EXCEPT !["cover_art"] = Undef,
                                        !["cover_art_mime_type"] = Undef],
                updateFileMetadata(allFilesMetadata, currentIndex, NoCover),
                TRUE, [editor EXCEPT !.coverArtUrl = Undef])


ImageTypes == {"image/png", "text/plain"}

AllowedTypes == {"image/jpeg", "image/jpg", "image/png", "image/gif", "image/webp"}

\* the base64 text of the resized image
ImageData == "iVBOR"

\* handleCoverArtUpload up to reader.readAsDataURL(file)
handleCoverArtUpload(type) ==
    /\ TagEditorMounted(allFilesMetadata, files, isAddingFile)
    /\ numEdits < MaxEdits
    /\ numEdits' = numEdits + 1
    /\ IF type \in AllowedTypes
       THEN /\ coverReads' = coverReads \cup
                   {[inst |-> instance, form |-> editor.metadata, mime |-> type,
                     closure |-> Closure(allFilesMetadata, currentIndex)]}
            /\ editor' = editor
       ELSE /\ coverReads' = coverReads
            /\ editor' = [editor EXCEPT !.showAlert = TRUE]
    /\ lastOp' = "handleCoverArtUpload"
    /\ UNCHANGED <<clearCacheRequests, routeVars>>
    /\ UNCHANGED <<sharedVars, panelVars, refVars, timers, saves, numCreated, numCloses,
                   numTimers, acquisitions, instance, obsVars>>

\* result.split(',')[1] of the data URL the second FileReader produces
Base64Of(mime, data) == data

\* the end of the asynchronous chain: the inner reader.onload
CoverReadDone(r) ==
    /\ r \in coverReads
    /\ coverReads' = coverReads \ {r}
    /\ LET base64Data == Base64Of(r.mime, ImageData)
           newMetadata == [r.form EXCEPT !["cover_art"] = base64Data,
                                         !["cover_art_mime_type"] = r.mime]
           patch == [f \in {"cover_art", "cover_art_mime_type"} |->
                        IF f = "cover_art" THEN base64Data ELSE r.mime]
       IN  /\ Render(updateFileMetadata(allFilesMetadata, r.closure.index, patch),
                     currentIndex, files, isAddingFile,
                     IF Live(r.inst)
                     THEN [editor EXCEPT !.metadata = newMetadata,
                                         !.coverArtUrl = DataUrl(r.mime, ImageData),
                                         !.hasPendingChanges = TRUE]
                     ELSE editor,
                     TRUE,
                     debouncedAutoSaveTimers(timers, autoSaveTimeoutRef, r.inst,
                         numTimers + 1, newMetadata, TRUE, r.closure),
                     debouncedAutoSaveRef(autoSaveTimeoutRef, r.inst, numTimers + 1),
                     isAutoSavingRef)
           /\ Debounced(r.inst, newMetadata, TRUE)
    /\ lastOp' = "coverReadDone"
    /\ UNCHANGED <<clearCacheRequests, routeVars>>
    /\ UNCHANGED <<isBatch, panelVars, saves, numCreated, numCloses, numEdits,
                   acquisitions>>

\* the chain stops: the image does not load, or toBlob yields no blob
CoverReadFailed(r) ==
    /\ r \in coverReads
    /\ coverReads' = coverReads \ {r}
    /\ lastOp' = "coverReadFailed"
    /\ UNCHANGED <<clearCacheRequests, routeVars>>
    /\ UNCHANGED <<sharedVars, panelVars, editor, refVars, timers, saves, countVars,
                   acquisitions, instance, obsVars>>

\* metadataToSend: every field || null
MetadataToSend(metadataToSave) == [f \in Fields |-> Or(metadataToSave[f], Undef)]

Min(a, b) == IF a < b THEN a ELSE b

\* time passes while timers are armed: one second, unless a timer is due
Tick ==
    /\ timers # {}
    /\ \A t \in timers : t.remaining > 0
    /\ timers' = {[t EXCEPT !.remaining = @ - 1] : t \in timers}
    /\ elapsed' = elapsed + 1
    /\ lastOp' = "tick"
    /\ UNCHANGED <<clearCacheRequests, routeVars>>
    /\ UNCHANGED <<sharedVars, panelVars, editor, refVars, coverReads, saves, countVars,
                   acquisitions, instance, lastEdit, attempts, lastAttempt, sentLog>>

\* autoSave: does this call send a request
autoSaveSends(busy, closure) ==
    ~busy /\ closure.hasEntry /\ Truthy(closure.stored)

\* autoSave: does this call return at one of its two guards
autoSaveReturns(busy, closure) == busy \/ ~closure.hasEntry

\* a due timer fires and calls autoSave(metadataToSave), up to the await of fetch
TimerFire(t) ==
    /\ t \in timers
    /\ t.remaining = 0
    /\ timers' = timers \ {t}
    /\ LET sends == autoSaveSends(isAutoSavingRef[t.inst], t.closure)
           returns == autoSaveReturns(isAutoSavingRef[t.inst], t.closure)
           request == [inst |-> t.inst, index |-> t.closure.index,
                       stored |-> t.closure.stored,
                       metadata |-> MetadataToSend(t.metadata)]
       IN  /\ isAutoSavingRef' = IF sends THEN [isAutoSavingRef EXCEPT ![t.inst] = TRUE]
                                 ELSE isAutoSavingRef
           /\ saves' = IF sends THEN saves \cup {request} ELSE saves
           /\ sentLog' = IF sends THEN sentLog \cup {request} ELSE sentLog
           /\ editor' = IF ~Live(t.inst) \/ returns THEN editor
                        ELSE IF sends THEN [editor EXCEPT !.isSaving = TRUE]
                        ELSE [editor EXCEPT !.hasPendingChanges = FALSE,
                                            !.isSaving = FALSE]
           /\ lastAttempt' = [made |-> TRUE, inst |-> t.inst, metadata |-> t.metadata,
                              sent |-> sends, inFlight |-> saves # {}]
    /\ attempts' = Min(attempts + 1, 2)
    /\ lastOp' = "autoSave"
    /\ UNCHANGED <<clearCacheRequests, routeVars>>
    /\ UNCHANGED <<sharedVars, panelVars, autoSaveTimeoutRef, coverReads, countVars,
                   acquisitions, instance, elapsed, lastEdit>>

SaveOutcomes == {"ok", "okNoFilename", "notOk", "notSuccess", "exception"}

\* the updated_filename the backend reports for a stored file
UpdatedName(stored) == "updated_" \o stored

\* a finally block that resets the guard after a successful save only
autoSaveFinallyOnSuccess(ref, inst, outcome) ==
    IF outcome \in {"ok", "okNoFilename"} THEN [ref EXCEPT ![inst] = FALSE] ELSE ref

\* autoSave, finally: isAutoSavingRef.current = false
autoSaveFinally(ref, inst, outcome) == [ref EXCEPT ![inst] = FALSE]

\* the outcomes after which autoSave ends in its catch block
SaveFailures == {"notOk", "notSuccess", "exception"}

\* setUpdatedFilenameInContext called for every response that has a body
autoSaveListAnyBody(list, s, outcome) ==
    IF outcome \in {"ok", "notSuccess"}
    THEN setUpdatedFilename(list, s.index, UpdatedName(s.stored))
    ELSE list

\* autoSave: the list after the response; only result.success with an
\* updated_filename reaches setUpdatedFilenameInContext
autoSaveList(list, s, outcome) ==
    IF outcome = "ok"
    THEN setUpdatedFilename(list, s.index, UpdatedName(s.stored))
    ELSE list

\* autoSave from the fetch response to its finally block
SaveResponse(s, outcome) ==
    /\ s \in saves
    /\ saves' = saves \ {s}
    /\ LET live == Live(s.inst)
           done == [editor EXCEPT !.hasPendingChanges = FALSE, !.isSaving = FALSE]
           busy2 == autoSaveFinally(isAutoSavingRef, s.inst, outcome)
       IN  IF outcome = "ok"
           THEN Render(autoSaveList(allFilesMetadata, s, outcome),
                       currentIndex, files, isAddingFile,
                       IF live THEN [done EXCEPT !.lastSaveTime = TRUE,
                                                 !.updatedFilename = UpdatedName(s.stored)]
                       ELSE editor,
                       TRUE, timers, autoSaveTimeoutRef, busy2)
           ELSE Render(autoSaveList(allFilesMetadata, s, outcome),
                       currentIndex, files, isAddingFile,
                       IF ~live THEN editor
                       ELSE IF outcome = "okNoFilename"
                       THEN [done EXCEPT !.lastSaveTime = TRUE]
                       ELSE done,
                       FALSE, timers, autoSaveTimeoutRef, busy2)
    /\ lastOp' = IF outcome \in SaveFailures THEN "saveFailed" ELSE "saveResponse"
    /\ UNCHANGED <<clearCacheRequests, routeVars>>
    /\ UNCHANGED <<isBatch, panelVars, coverReads, countVars, acquisitions, obsVars>>

\* ------------------------------------------------------------ specification
\* the input panels, the workspace and navigation
NextWorkspace ==
    \/ CloseWorkspace
    \/ \E outcome \in ClearCacheOutcomes : ClearCacheResponse(outcome)
    \/ \E option \in {"upload", "youtube", "soundcloud"} : SetSelectedOption(option)
    \/ \E k \in 1..MaxStaged : onDrop(k)
    \/ clearStagedFiles
    \/ processStagedFiles
    \/ \E a \in acquisitions, outcome \in UploadOutcomes :
          UploadResponse(a, outcome, TRUE, NoMetadata)
    \/ \E nonBlank \in BOOLEAN : setLink(nonBlank)
    \/ handleDownload
    \/ \E a \in acquisitions, outcome \in DownloadOutcomes :
          DownloadResponse(a, outcome, NoMetadata)
    \/ \E page \in 1..MaxFilesEver : Pagination(page)
    \/ goToNext
    \/ goToPrevious
    \/ goToFirst
    \/ goToLast
    \/ toggleIsBatch

Spec == Init /\ [][NextWorkspace]_vars

\* the text fields the runs edit
EditedFields == {"title", "artist"}

\* the workspace after an upload of n files whose tags are meta; withStored
\* says whether the response carried stored filenames
LoadedWith(n, withStored, meta) ==
    LET names == [i \in 1..n |-> FileNames[i]]
        detail == UploadDetail(names, withStored, meta)
        list == handleMetadataLoadedList(<<>>, detail)
    IN  /\ allFilesMetadata = list
        /\ currentIndex = handleMetadataLoadedIndex(<<>>, 0, detail)
        /\ files = FileListOf(names)
        /\ isBatch = (n > 1)
        /\ isAddingFile = FALSE
        /\ selectedOption = "upload"
        /\ stagedFiles = <<>>
        /\ linkText = FALSE
            /\ acquisitions = {}
        /\ numCreated = n
        /\ numCloses = 0
        /\ lastOp = "uploadResponse"
        /\ instance = 1
        /\ editor = LoadEffects(list, 0, InitialEditor)
        /\ autoSaveTimeoutRef = <<0>>
        /\ isAutoSavingRef = <<FALSE>>
        /\ timers = {}
        /\ coverReads = {}
        /\ saves = {}
        /\ numEdits = 0
        /\ numTimers = 0
        /\ elapsed = 0
        /\ lastEdit = NoEdit
        /\ attempts = 0
        /\ lastAttempt = NoAttempt
        /\ sentLog = {}
        /\ clearCacheRequests = 0
        /\ env = DevelopmentEnv
        /\ apiCalls = <<>>
        /\ proxyCalls = <<>>
        /\ resizeCalls = <<>>
        /\ downloadRequests = <<>>

Loaded(n, meta) == LoadedWith(n, TRUE, meta)

InitEditor == \E n \in 1..2, meta \in BackendMetadata : Loaded(n, meta)

InitSingle == \E meta \in BackendMetadata : Loaded(1, meta)

\* the tag editor on a workspace that stays as loaded
NextEditor ==
    \/ \E page \in 1..MaxFilesEver : Pagination(page)
    \/ toggleIsBatch
    \/ \E field \in EditedFields, value \in TextValues : handleInputChange(field, value)
    \/ \E text \in YearInputs : yearChange(text)
    \/ removeCover
    \/ \E type \in ImageTypes : handleCoverArtUpload(type)
    \/ \E r \in coverReads : CoverReadDone(r)
    \/ \E r \in coverReads : CoverReadFailed(r)
    \/ Tick
    \/ \E t \in timers : TimerFire(t)
    \/ \E s \in saves, outcome \in SaveOutcomes : SaveResponse(s, outcome)

SpecEditor == InitEditor /\ [][NextEditor]_vars

\* one file with a stored filename, no navigation
NextSingle ==
    \/ \E field \in EditedFields, value \in TextValues : handleInputChange(field, value)
    \/ \E text \in YearInputs : yearChange(text)
    \/ removeCover
    \/ \E type \in ImageTypes : handleCoverArtUpload(type)
    \/ \E r \in coverReads : CoverReadDone(r)
    \/ \E r \in coverReads : CoverReadFailed(r)
    \/ Tick
    \/ \E t \in timers : TimerFire(t)
    \/ \E s \in saves, outcome \in SaveOutcomes : SaveResponse(s, outcome)

SpecSingle == InitSingle /\ [][NextSingle]_vars

\* the tag editor on a workspace that is closed and loaded again by upload
NextReload ==
    \/ CloseWorkspace
    \/ \E outcome \in ClearCacheOutcomes : ClearCacheResponse(outcome)
    \/ onDrop(1)
    \/ processStagedFiles
    \/ \E a \in acquisitions, outcome \in {"ok", "httpError"} :
          UploadResponse(a, outcome, TRUE, NoMetadata)
    \/ \E value \in TextValues : handleInputChange("title", value)
    \/ handleCoverArtUpload("image/png")
    \/ \E r \in coverReads : CoverReadDone(r)
    \/ Tick
    \/ \E t \in timers : TimerFire(t)
    \/ \E s \in saves, outcome \in {"ok", "notOk"} : SaveResponse(s, outcome)

SpecReload == InitSingle /\ [][NextReload]_vars


\* ------------------------------------------------------------ callers of getApiUrl
\* endpoints that are not in API_CONFIG.ENDPOINTS
OtherEndpoints == {<<"/upload">>, <<"/api", "/upload", "/">>, <<"/">>}

getApiUrlCall(endpoint) ==
    /\ Len(apiCalls) < MaxApiCalls
    /\ apiCalls' = Append(apiCalls, [endpoint |-> endpoint, url |-> getApiUrl(endpoint)])
    /\ lastOp' = "getApiUrl"
    /\ UNCHANGED <<sharedVars, panelVars, editor, refVars, asyncVars, countVars,
                   acquisitions, instance, obsVars, clearCacheRequests, env, proxyCalls, resizeCalls,
                   downloadRequests>>

InitApi == \E e \in Envs : Start(e)

NextApi == \E endpoint \in ENDPOINTS \cup OtherEndpoints : getApiUrlCall(endpoint)

SpecApi == InitApi /\ [][NextApi]_vars

\* --------------------------------------------------------- callers of the routes
POSTCall(route, request, backend) ==
    /\ Len(proxyCalls) < MaxProxyCalls
    /\ proxyCalls' = Append(proxyCalls,
           [route |-> route, request |-> request, backend |-> backend,
            response |-> POST(route, request, backend)])
    /\ lastOp' = "POST"
    /\ UNCHANGED <<sharedVars, panelVars, editor, refVars, asyncVars, countVars,
                   acquisitions, instance, obsVars, clearCacheRequests, env, apiCalls, resizeCalls,
                   downloadRequests>>

NextProxy ==
    \E route \in ProxyRoutes, request \in ProxyRequests, backend \in BackendAnswers :
        POSTCall(route, request, backend)

SpecProxy == Init /\ [][NextProxy]_vars

\* img.onload for a picked image of w by h pixels.
imgOnload(w, h) ==
    /\ Len(resizeCalls) < MaxResizeCalls
    /\ resizeCalls' = Append(resizeCalls,
          [w |-> w, h |-> h,
           width |-> resize(w, h).width,
           height |-> resize(w, h).height,
           canvasWidth |-> ToUnsignedLong(resize(w, h).width),
           canvasHeight |-> ToUnsignedLong(resize(w, h).height)])
    /\ lastOp' = "imgOnload"
    /\ UNCHANGED <<sharedVars, panelVars, editor, refVars, asyncVars, countVars,
                   acquisitions, instance, obsVars, clearCacheRequests, env,
                   apiCalls, proxyCalls, downloadRequests>>

NextResize == \E w \in ImageSides, h \in ImageSides : imgOnload(w, h)

SpecResize == Init /\ [][NextResize]_vars

\* A press on the download button under the form.  The TagEditor of
\* src/unnamed/part_018 passes neither updatedFilename nor hasUnsavedChanges, so
\* the first is undefined and the second its default, false.  The button is
\* disabled while hasFiles is false, and the handler returns at once then.
downloadButton ==
    /\ TagEditorMounted(allFilesMetadata, files, isAddingFile)
    /\ Len(downloadRequests) < MaxDownloads
    /\ downloadRequests' = Append(downloadRequests,
          [url |-> DownloadButtonsHandleDownload(files, allFilesMetadata,
                                                 currentIndex, Undef, FALSE)])
    /\ lastOp' = "downloadButton"
    /\ UNCHANGED <<sharedVars, panelVars, editor, refVars, asyncVars, countVars,
                   acquisitions, instance, obsVars, clearCacheRequests, env,
                   apiCalls, proxyCalls, resizeCalls>>

InitDownload == Loaded(2, NoMetadata)

\* two uploaded files that are edited, saved and downloaded
NextDownload ==
    \/ \E page \in 1..2 : Pagination(page)
    \/ \E field \in EditedFields, value \in TextValues : handleInputChange(field, value)
    \/ Tick
    \/ \E t \in timers : TimerFire(t)
    \/ \E s \in saves, outcome \in {"ok", "notOk"} : SaveResponse(s, outcome)
    \/ downloadButton

SpecDownload == InitDownload /\ [][NextDownload]_vars

InitGuard ==
    \E withStored \in BOOLEAN, meta \in BackendMetadata : LoadedWith(1, withStored, meta)

\* one file, with or without a stored filename, whose saves end in every way
NextGuard ==
    \/ \E field \in EditedFields, value \in TextValues : handleInputChange(field, value)
    \/ \E text \in YearInputs : yearChange(text)
    \/ Tick
    \/ \E t \in timers : TimerFire(t)
    \/ \E s \in saves, outcome \in SaveOutcomes : SaveResponse(s, outcome)

SpecGuard == InitGuard /\ [][NextGuard]_vars

\* ===================================================================== claims
\* C1: after any sequence of operations the current index is a valid position of
\* the metadata list: in 0..length-1 when the list is non-empty, 0 when it is empty.
C1_IndexValid ==
    IF Len(allFilesMetadata) = 0
    THEN currentIndex = 0
    ELSE currentIndex \in 0..(Len(allFilesMetadata) - 1)

\* what files.length reports (a null list holds no file)
FilesLength(fl) == IF fl.null THEN Num(0) ELSE fl.length

\* C2: with no upload or download in flight, the file list reports as many files
\* as the metadata list has entries and position i of both is the same file.
C2_FilesMatchMetadata ==
    acquisitions = {} =>
        /\ FilesLength(files) = Num(Len(allFilesMetadata))
        /\ \A i \in 1..Len(allFilesMetadata) :
              /\ i <= Len(files.items)
              /\ files.items[i] = allFilesMetadata[i].filename

\* no timer armed, no request in flight, no cover image being read
Quiescent == timers = {} /\ saves = {} /\ coverReads = {}

\* C3: one file with a stored filename, no navigation: once the user has stopped
\* editing and all pending work is done, a request carrying the metadata of the
\* last edit has been sent, also when its timer fired during an earlier request.
C3_LastEditSent ==
    (lastEdit.made /\ Quiescent) =>
        \E r \in sentLog : r.metadata = MetadataToSend(lastEdit.metadata)

\* C4: debouncing: at most one timer is armed (an edit cancels the previous one)
\* and it carries the last edit; no auto-save is attempted before the delay of the
\* last edit (1 s text/year, 3 s cover art) has elapsed, and then exactly one is,
\* carrying the metadata of the last edit.
C4_Debounce ==
    /\ Cardinality(timers) <= 1
    /\ \A t \in timers :
          /\ attempts = 0
          /\ t.metadata = lastEdit.metadata
          /\ t.remaining = lastEdit.delay - elapsed
    /\ lastEdit.delay \in {0, TextDelay, CoverDelay}
    /\ attempts <= 1
    /\ attempts = 1 =>
          /\ elapsed >= lastEdit.delay
          /\ lastAttempt.metadata = lastEdit.metadata
    /\ (lastEdit.made /\ timers = {}) => attempts = 1

\* a text edit cancelled by a cover-art change, saved once 3 s after the change
C4_Witness ==
    /\ numTimers = 2
    /\ lastEdit.delay = CoverDelay
    /\ timers = {}
    /\ attempts = 1
    /\ elapsed = CoverDelay
    /\ lastAttempt.sent
    /\ Cardinality(sentLog) = 1

\* C5: at every moment at most one auto-save request is in flight, and an
\* auto-save attempted while one is in flight sends no request.
C5_Serialized ==
    /\ Cardinality(saves) <= 1
    /\ (lastAttempt.made /\ lastAttempt.inFlight) => ~lastAttempt.sent

Cleared == allFilesMetadata = <<>> /\ currentIndex = 0 /\ files = NullFiles

\* C6: immediately after closeWorkspace the metadata list is empty, the current
\* index is 0 and the file list is null, and the settling of the clear-cache
\* request, resolved or rejected, changes none of the three.
C6_CloseClears ==
    [][/\ lastOp' = "closeWorkspace" => Cleared'
       /\ lastOp' \in {"clearCacheResolved", "clearCacheRejected"} =>
              UNCHANGED <<allFilesMetadata, currentIndex, files>>]_vars

\* a loaded workspace has been closed and its clear-cache request was rejected
C6_Witness ==
    /\ lastOp = "clearCacheRejected"
    /\ instance = 1
    /\ numCloses = 1
    /\ Cleared

\* C7: the list grows only when a metadataLoaded event is handled, and the
\* handling keeps the entries that existed, unchanged and in order, and appends
\* one entry per file of the event: k for an upload of k files, one for a download.
C7_EntriesAppended ==
    [][LET old == allFilesMetadata
           new == allFilesMetadata'
       IN  /\ Len(new) > Len(old) => lastOp' \in {"uploadResponse", "downloadResponse"}
           /\ lastOp' = "uploadResponse" =>
                 \E a \in acquisitions \ acquisitions' :
                    /\ Len(new) = Len(old) + Len(a.names)
                    /\ SubSeq(new, 1, Len(old)) = old
                    /\ \A i \in 1..Len(a.names) : new[Len(old) + i].filename = a.names[i]
           /\ lastOp' = "downloadResponse" =>
                 /\ Len(new) = Len(old) + 1
                 /\ SubSeq(new, 1, Len(old)) = old
                 /\ new[Len(new)].isDownloaded]_vars

\* an upload of two files followed by a URL download
C7_Witness ==
    /\ lastOp = "downloadResponse"
    /\ Len(allFilesMetadata) = 3
    /\ ~allFilesMetadata[1].isDownloaded
    /\ ~allFilesMetadata[2].isDownloaded
    /\ allFilesMetadata[3].isDownloaded
    /\ numCloses = 0

\* updates a form edit can pass to the provider
Patches == {[f \in {g} |-> "x"] : g \in {"title", "year"}} \cup {NoCover}

\* new has the entries of old in number and order, with their filename, their
\* storedFilename and every metadata field outside named
SameFrame(old, new, named) ==
    /\ Len(new) = Len(old)
    /\ \A i \in 1..Len(old) :
          /\ new[i].filename = old[i].filename
          /\ new[i].storedFilename = old[i].storedFilename
          /\ \A f \in Fields \ named : new[i].metadata[f] = old[i].metadata[f]

\* C8: updateFileMetadata, updateAllFilesMetadata and setUpdatedFilename keep the
\* number and order of the entries, every filename and storedFilename and every
\* metadata field the update does not name; updateFileMetadata and
\* setUpdatedFilename with an index outside the list return the list unchanged.
C8_InPlace ==
    /\ \A patch \in Patches :
          SameFrame(allFilesMetadata,
                    updateAllFilesMetadata(allFilesMetadata, patch), DOMAIN patch)
    /\ \A index \in (-1)..Len(allFilesMetadata) :
          /\ \A patch \in Patches :
                LET updated == updateFileMetadata(allFilesMetadata, index, patch)
                IN  /\ SameFrame(allFilesMetadata, updated, DOMAIN patch)
                    /\ ~HasAt(allFilesMetadata, index) => updated = allFilesMetadata
          /\ LET renamed == setUpdatedFilename(allFilesMetadata, index, "g.mp3")
             IN  /\ SameFrame(allFilesMetadata, renamed, {})
                 /\ ~HasAt(allFilesMetadata, index) => renamed = allFilesMetadata

\* two entries, one of them edited by the form and renamed by a saved auto-save
C8_Witness ==
    /\ Len(allFilesMetadata) = 2
    /\ \E i \in 1..2 :
          /\ allFilesMetadata[i].metadata["title"] = "a"
          /\ Truthy(allFilesMetadata[i].updatedFilename)
          /\ allFilesMetadata[i].filename = FileNames[i]

\* the form shows entry: its text fields ("" when missing), cover art and filename
ShowsTextAndCover(entry) ==
    /\ \A f \in TextFields :
          editor.metadata[f] = IF entry.metadata[f] = Undef THEN "" ELSE entry.metadata[f]
    /\ editor.metadata["cover_art"] = entry.metadata["cover_art"]
    /\ editor.currentFilename = entry.filename

UnderApiUpload(url) == Len(url) > 2 /\ SubSeq(url, 1, 2) = <<"/api", "/upload">>

\* C10: getApiUrl(endpoint) is the direct backend URL followed by the endpoint if
\* and only if the endpoint is '/upload/'; any other endpoint is returned
\* unchanged, and for the other endpoints of API_CONFIG that is a path under
\* '/api/upload/'.
C10_Routing ==
    \A i \in 1..Len(apiCalls) :
        LET endpoint == apiCalls[i].endpoint
            url == apiCalls[i].url
        IN  /\ (url = DIRECT_BACKEND_URL \o endpoint) <=> (endpoint = UPLOAD)
            /\ endpoint # UPLOAD => url = endpoint
            /\ endpoint \in ENDPOINTS \ {UPLOAD} => UnderApiUpload(url)

\* production with an empty NEXT_PUBLIC_API_URL: the upload goes to the default
\* backend and clear-cache stays a path of the application
C10_Witness ==
    /\ env = [NODE_ENV |-> "production", NEXT_PUBLIC_API_URL |-> ""]
    /\ Len(apiCalls) = 2
    /\ apiCalls[1] = [endpoint |-> UPLOAD,
                      url |-> <<"https://audio-tag-editor-web.onrender.com", "/upload", "/">>]
    /\ apiCalls[2] = [endpoint |-> CLEAR_CACHE, url |-> CLEAR_CACHE]

LessEq(q, n) == q.n <= n * q.d

Equals(q, n, d) == q.n * d = n * q.d

C12_Resize ==
    \A i \in 1..Len(resizeCalls) :
        LET c == resizeCalls[i]
            fits == c.w <= maxSize /\ c.h <= maxSize
        IN  /\ LessEq(c.width, maxSize) /\ LessEq(c.height, maxSize)
            /\ c.canvasWidth <= maxSize /\ c.canvasHeight <= maxSize
            /\ fits =>
                  /\ Equals(c.width, c.w, 1) /\ Equals(c.height, c.h, 1)
                  /\ c.canvasWidth = c.w /\ c.canvasHeight = c.h
            /\ (~fits /\ c.w >= c.h) =>
                  /\ Equals(c.width, maxSize, 1)
                  /\ Equals(c.height, c.h * maxSize, c.w)
                  /\ c.canvasWidth = maxSize
                  /\ c.canvasHeight = (c.h * maxSize) \div c.w
            /\ (~fits /\ c.h >= c.w) =>
                  /\ Equals(c.height, maxSize, 1)
                  /\ Equals(c.width, c.w * maxSize, c.h)
                  /\ c.canvasHeight = maxSize
                  /\ c.canvasWidth = (c.w * maxSize) \div c.h

C12_Witness ==
    /\ Len(resizeCalls) = 1
    /\ resizeCalls[1].w = 1000 /\ resizeCalls[1].h = 750
    /\ resizeCalls[1].canvasWidth = 500 /\ resizeCalls[1].canvasHeight = 375

C14_TextEditFrame ==
    [][lastOp' = "handleInputChange" =>
          \E field \in TextFields :
              LET value == lastEdit'.metadata[field]
              IN  /\ value # editor.metadata[field]
                  /\ lastEdit'.metadata = [editor.metadata EXCEPT ![field] = value]
                  /\ Len(allFilesMetadata') = Len(allFilesMetadata)
                  /\ \A i \in 1..Len(allFilesMetadata) :
                        allFilesMetadata'[i] =
                            IF isBatch \/ i = currentIndex + 1
                            THEN [allFilesMetadata[i] EXCEPT
                                     !.metadata = [@ EXCEPT ![field] = value]]
                            ELSE allFilesMetadata[i]]_vars

C14_Witness ==
    /\ lastOp = "handleInputChange"
    /\ isBatch
    /\ currentIndex = 1
    /\ Len(allFilesMetadata) = 2
    /\ lastEdit.metadata["artist"] = "a"
    /\ allFilesMetadata[1].metadata["artist"] = "a"
    /\ allFilesMetadata[2].metadata["artist"] = "a"
    /\ allFilesMetadata[1].metadata["title"] = "t0"
    /\ allFilesMetadata[2].metadata["title"] = "t0"

\* C15: while batch edit is on, every edit made through the form (a text
\* field, the year, a cover image picked, the cover removed) is applied to all
\* files: a field the edit changes in one entry has the new value in every
\* entry.
FormEditOps == {"handleInputChange", "yearChange", "coverReadDone", "removeCover"}

AppliedToAll(old, new) ==
    /\ Len(new) = Len(old)
    /\ \A f \in Fields, i \in 1..Len(old) :
          new[i].metadata[f] # old[i].metadata[f] =>
              \A j \in 1..Len(new) : new[j].metadata[f] = new[i].metadata[f]

C15_BatchAppliesToAll ==
    [][(isBatch /\ lastOp' \in FormEditOps) =>
          AppliedToAll(allFilesMetadata, allFilesMetadata')]_vars

\* C16: two files loaded without tags, batch edit on: once the single edit made
\* has been followed by its quiet period and all pending work is done, a
\* request carrying the edit has been sent for every file whose entry the edit
\* changed.
C16_BatchSavesAll ==
    (isBatch /\ numEdits = 1 /\ lastEdit.made /\ Quiescent) =>
        \A i \in 1..Len(allFilesMetadata) :
            allFilesMetadata[i].metadata # NoMetadata =>
                \E r \in sentLog :
                    /\ r.index = i - 1
                    /\ r.stored = allFilesMetadata[i].storedFilename
                    /\ r.metadata = MetadataToSend(lastEdit.metadata)

\* C17: an auto-save triggered by an edit made while file i was the current file
\* targets file i whatever file is current later: the timer the edit arms (for a
\* picked cover image, the read it starts and the timer armed when the read is
\* done) holds index i and the stored filename of entry i, the request sent
\* when the timer fires carries them, and the response records the updated
\* filename on entry i, which is the entry of that stored file.
HoldsCurrent(closure) ==
    /\ closure.index = currentIndex
    /\ closure.hasEntry = HasAt(allFilesMetadata, currentIndex)
    /\ closure.hasEntry =>
          closure.stored = At(allFilesMetadata, currentIndex).storedFilename

C17_TargetsEditedFile ==
    [][/\ lastOp' \in {"handleInputChange", "yearChange", "removeCover"} =>
             /\ timers' \ timers # {}
             /\ \A t \in timers' \ timers : HoldsCurrent(t.closure)
       /\ lastOp' = "handleCoverArtUpload" =>
             \A r \in coverReads' \ coverReads : HoldsCurrent(r.closure)
       /\ lastOp' = "coverReadDone" =>
             \A t \in timers' \ timers :
                 \E r \in coverReads \ coverReads' : t.closure = r.closure
       /\ lastOp' = "autoSave" =>
             \A r \in sentLog' \ sentLog :
                 \E t \in timers \ timers' :
                     r.index = t.closure.index /\ r.stored = t.closure.stored
       /\ lastOp' \in {"saveResponse", "saveFailed"} =>
             \A s \in saves \ saves', i \in 1..Len(allFilesMetadata) :
                 allFilesMetadata'[i].updatedFilename # allFilesMetadata[i].updatedFilename =>
                     /\ i = s.index + 1
                     /\ allFilesMetadata[i].storedFilename = s.stored
                     /\ allFilesMetadata'[i].updatedFilename = UpdatedName(s.stored)]_vars

\* file 2 was edited, file 1 was current when the response arrived
C17_Witness ==
    /\ lastOp = "saveResponse"
    /\ currentIndex = 0
    /\ Len(allFilesMetadata) = 2
    /\ allFilesMetadata[1].updatedFilename = Undef
    /\ allFilesMetadata[2].updatedFilename = UpdatedName(allFilesMetadata[2].storedFilename)
    /\ \E r \in sentLog : r.index = 1 /\ r.stored = allFilesMetadata[2].storedFilename

\* C18: a pending auto-save is not lost by navigation: a timer armed by an edit
\* of file A stays armed until it fires, unless a later edit of A itself
\* replaces it; an edit of another file B leaves it armed, so that requests go
\* out for both A and B.
C18_PendingSaveKept ==
    [][\A t \in timers :
          (\A t2 \in timers' : t2.id # t.id) =>
              \/ lastOp' = "autoSave"
              \/ \E t2 \in timers' : t2.closure.index = t.closure.index]_vars

\* C19: the updated filename an auto-save response reports is recorded only on
\* the entry of the file that was saved, also when the workspace is closed and
\* new files are loaded while the request is in flight.
C19_RecordedOnSavedFile ==
    [][lastOp' \in {"saveResponse", "saveFailed"} =>
          \A s \in saves \ saves', i \in 1..Len(allFilesMetadata') :
              (i > Len(allFilesMetadata) \/
               allFilesMetadata'[i].updatedFilename # allFilesMetadata[i].updatedFilename) =>
                  allFilesMetadata'[i].storedFilename = s.stored]_vars

\* C20: the metadata of every auto-save request equals, field by field and with
\* an empty value sent as null, what the list holds for the targeted file right
\* after the edit that triggered the request was applied, also when a text edit
\* is made while a picked cover image is still being read.
C20_RequestMatchesList ==
    [][/\ \A t \in timers' :
             ((\A t0 \in timers : t0.id # t.id) /\ t.closure.hasEntry) =>
                 MetadataToSend(t.metadata) =
                     MetadataToSend(allFilesMetadata'[t.closure.index + 1].metadata)
       /\ lastOp' = "autoSave" =>
             \A r \in sentLog' \ sentLog :
                 \E t \in timers \ timers' : r.metadata = MetadataToSend(t.metadata)]_vars

\* C21: a failed auto-save never blocks later ones: the in-flight guard of an
\* editor is set exactly while a request of that editor is in flight, whatever
\* way the earlier attempts ended (success, non-OK response, success false,
\* exception, no stored filename), so a timer that fires with no request in
\* flight for a file with a stored filename sends its request.
GuardIsInFlight ==
    \A inst \in 1..Len(isAutoSavingRef) :
        isAutoSavingRef[inst] = (\E s \in saves : s.inst = inst)

C21_GuardReset ==
    [][/\ GuardIsInFlight'
       /\ lastOp' = "autoSave" =>
             \A t \in timers :
                 (/\ \A t2 \in timers' : t2.id # t.id
                  /\ \A s \in saves : s.inst # t.inst
                  /\ t.closure.hasEntry
                  /\ Truthy(t.closure.stored)) =>
                     \E r \in saves' \ saves :
                         /\ r.inst = t.inst
                         /\ r.stored = t.closure.stored
                         /\ r.metadata = MetadataToSend(t.metadata)]_vars

\* the first request failed, the second edit's request is in flight
C21_Witness ==
    /\ lastOp = "autoSave"
    /\ Cardinality(sentLog) = 2
    /\ Cardinality(saves) = 1
    /\ ~editor.lastSaveTime
    /\ lastAttempt.sent /\ ~lastAttempt.inFlight
    /\ isAutoSavingRef[1]

\* C22: an auto-save that fails (non-OK response, success false, exception)
\* leaves the shared state as it was: the list with every entry's metadata and
\* updated filename, the current index, the files, the batch and adding flags;
\* and it raises no alert.
C22_FailedSaveFrame ==
    [][lastOp' = "saveFailed" =>
          /\ allFilesMetadata' = allFilesMetadata
          /\ currentIndex' = currentIndex
          /\ files' = files
          /\ isBatch' = isBatch
          /\ isAddingFile' = isAddingFile
          /\ editor'.showAlert = editor.showAlert]_vars

\* the save of an edit of the second file has failed
C22_Witness ==
    /\ lastOp = "saveFailed"
    /\ saves = {}
    /\ ~editor.showAlert
    /\ Len(allFilesMetadata) = 2
    /\ currentIndex = 1
    /\ allFilesMetadata[2].metadata["artist"] = "a"
    /\ allFilesMetadata[2].updatedFilename = Undef
    /\ \E r \in sentLog : r.index = 1

\* C23: the adding flag tracks the acquisitions: it is true exactly while an
\* upload, a YouTube download or a SoundCloud download is in flight; it becomes
\* true when the request starts and is false again when the request has ended,
\* in success, HTTP error, malformed response or exception.
C23_AddingTracks == isAddingFile = (acquisitions # {})

\* a download that failed after the user had switched panels
C23_Witness ==
    /\ lastOp = "downloadFailed"
    /\ selectedOption = "upload"
    /\ ~isAddingFile
    /\ acquisitions = {}

\* C24: at most one acquisition is in flight at any time: while an upload or
\* a download is in flight no upload or download request can be started from
\* any of the three panels, also after the selected option was changed.
C24_OneAcquisition ==
    [][/\ Cardinality(acquisitions') <= 1
       /\ lastOp' \in {"processStagedFiles", "handleDownload"} =>
             /\ ~isAddingFile
             /\ acquisitions = {}
             /\ Cardinality(acquisitions') = 1]_vars

\* an upload in flight seen from the SoundCloud panel
C24_Witness ==
    /\ selectedOption = "soundcloud"
    /\ isAddingFile
    /\ \E a \in acquisitions : a.kind = "upload" /\ ~a.alive
    /\ ~ENABLED handleDownload
    /\ ~ENABLED processStagedFiles

\* C25: after a load the editor points at the new file: handling an upload
\* response with k >= 1 files while the list has n entries sets the current
\* index to n, the first new file (0 for an empty list); handling a URL
\* download while the list has n entries sets it to n, the new entry, which is
\* then the last of the list.
C25_IndexAfterLoad ==
    [][LET n == Len(allFilesMetadata)
       IN  /\ lastOp' = "uploadResponse" =>
                 \E a \in acquisitions \ acquisitions' :
                     /\ Len(a.names) >= 1
                     /\ currentIndex' = n
                     /\ Len(allFilesMetadata') = n + Len(a.names)
                     /\ allFilesMetadata'[currentIndex' + 1].filename = a.names[1]
           /\ lastOp' = "downloadResponse" =>
                 /\ currentIndex' = n
                 /\ currentIndex' = Len(allFilesMetadata') - 1
                 /\ allFilesMetadata'[currentIndex' + 1].isDownloaded]_vars

\* two files uploaded into a workspace that held one downloaded file
C25_Witness ==
    /\ lastOp = "uploadResponse"
    /\ Len(allFilesMetadata) = 3
    /\ currentIndex = 1
    /\ allFilesMetadata[1].isDownloaded
    /\ ~allFilesMetadata[2].isDownloaded
    /\ ~allFilesMetadata[3].isDownloaded

====
